---- MODULE Spec2Model ----
(***************************************************************************)
(* Model of anomalies.py: find the days of the AdventureWorks data set     *)
(* whose number of sales is unusually high or low by Inter Quartile Range  *)
(* analysis, and write them to dates_unusual_sales.csv.                    *)
(*                                                                         *)
(* Numbers.  Counts are integers.  A quartile taken by linear              *)
(* interpolation at rank p*(n-1), p in {1/4, 3/4}, is a multiple of 1/4,   *)
(* and 1.5 times a difference of two quartiles is a multiple of 1/8.  All  *)
(* float values of the program are therefore held in EIGHTHS, as integers: *)
(* the float x is the integer 8*x.  For counts far below 2^50 every such   *)
(* value is exactly representable as an IEEE double, so the integer        *)
(* arithmetic below is the float arithmetic of the program.  NaN is kept   *)
(* as a value of its own, with IEEE comparison (every comparison false).   *)
(***************************************************************************)
EXTENDS Integers, Sequences, FiniteSets, TLC

VARIABLES
    config,             \* the file database.ini
    dbStatus,           \* the state of the PostgreSQL server
    csv,                \* the file dates_unusual_sales.csv
    csv0,               \* that file as it was before the run (history)
    csvWrites,          \* number of times the file was opened for writing (history)
    stdout,             \* what print() has written
    mainpc,             \* position of the __main__ block
    db_engine,          \* the variable db_engine of __main__
    exitStatus,         \* how the interpreter ended
    connAttempts,       \* number of database connection attempts (history)
    pc,                 \* position of each invocation of days_unusual_sale_counts
    exc,                \* exception raised by each invocation, if any
    transaction_counts, \* locals of each invocation ...
    q_1,
    q_3,
    iqr,
    lower_bound,
    upper_bound,
    anomalies

vars == << config, dbStatus, csv, csv0, csvWrites, stdout, mainpc, db_engine,
           exitStatus, connAttempts, pc, exc, transaction_counts, q_1, q_3,
           iqr, lower_bound, upper_bound, anomalies >>

(***************************************************************************)
(* Bounds of the model.                                                    *)
(***************************************************************************)
MaxRows == 5          \* most rows the query returns
MaxCount == 3         \* largest count of a day
ConcMaxRows == 4      \* most rows of a table in the concurrent specification
ConcMaxCount == 3     \* largest count there; counts are 1 or ConcMaxCount

(***************************************************************************)
(* Floats, in eighths.                                                     *)
(***************************************************************************)
NaN == [nan |-> TRUE, v |-> 0]
Num(n8) == [nan |-> FALSE, v |-> n8]
FromInt(c) == Num(8 * c)
Unassigned == [nan |-> TRUE, v |-> -1]

FSub(a, b) == IF a.nan \/ b.nan THEN NaN ELSE Num(a.v - b.v)
FAdd(a, b) == IF a.nan \/ b.nan THEN NaN ELSE Num(a.v + b.v)
\* 1.5 * x; x is a difference of quartiles, an even number of eighths
FMul15(a) == IF a.nan THEN NaN ELSE Num((3 * a.v) \div 2)
FGe(a, b) == ~a.nan /\ ~b.nan /\ a.v >= b.v
FLe(a, b) == ~a.nan /\ ~b.nan /\ a.v <= b.v
FLt(a, b) == ~a.nan /\ ~b.nan /\ a.v < b.v
FGt(a, b) == ~a.nan /\ ~b.nan /\ a.v > b.v

(***************************************************************************)
(* The tables the query can return: one row per distinct date (group by),  *)
(* a count of at least 1 for a date that is present, rows in no           *)
(* particular order (the query has no order by).                           *)
(***************************************************************************)
RECURSIVE PermSeqs(_)
PermSeqs(S) ==
    IF S = {} THEN { <<>> }
    ELSE UNION { { <<x>> \o p : p \in PermSeqs(S \ {x}) } : x \in S }

Row(d, c) == [orderdate |-> d, count |-> c]

\* the orders a table of n dates is fetched in: the rotations of the date
\* order and of its reverse
Orders(n) ==
    { [k \in 1..n |-> ((k + r - 1) % n) + 1] : r \in 0..(n - 1) }
    \cup { [k \in 1..n |-> n - ((k + r - 1) % n)] : r \in 0..(n - 1) }
    \cup (IF n = 0 THEN { << >> } ELSE {})

TablesOf(n, counts) ==
    { [k \in 1..n |-> Row(p[k], c[p[k]])] : p \in Orders(n), c \in [1..n -> counts] }

\* the tables, by their number of rows
Tables == [n \in 0..MaxRows |-> TablesOf(n, 1..MaxCount)]

ConcTables ==
    [n \in 0..ConcMaxRows |->
        { [k \in 1..n |-> Row(k, c[k])] : c \in [1..n -> {1, ConcMaxCount}] }]

ScenarioACounts == << 10, 12, 12, 13, 14, 15, 100 >>
ScenarioARows == { Row(d, ScenarioACounts[d]) : d \in 1..7 }
ScenarioATables == [n \in {7} |-> PermSeqs(ScenarioARows)]

Column(t) == [k \in 1..Len(t) |-> t[k].count]

(***************************************************************************)
(* get_config and connect                                                  *)
(***************************************************************************)
ConfigFiles ==
    { [has_section |-> FALSE, params |-> "none"],
      [has_section |-> TRUE, params |-> "invalid"],   \* a key URL.create does not take
      [has_section |-> TRUE, params |-> "valid"] }

None == "None"
Engine == "Engine"

\* db_config is "empty" (no parameter), "valid" or "invalid"
GetConfigNoRaise(cfg) ==
    [raised |-> "none", db_config |-> IF cfg.has_section THEN cfg.params ELSE "empty"]
get_config(cfg) ==
    IF cfg.has_section
    THEN [raised |-> "none", db_config |-> cfg.params]
    ELSE [raised |-> "ValueError: Section postgresql not found in database.ini",
          db_config |-> "empty"]

\* URL.create(drivername="postgresql", **params); create_engine(url).
\* create_engine is lazy: it opens no connection.
CreateEngine(db_config) ==
    IF db_config # "invalid"
    THEN [raised |-> "none", engine |-> Engine]
    ELSE [raised |-> "TypeError: URL.create() got an unexpected keyword argument",
          engine |-> None]

\* the result of connect(): what it returns and what it prints
connect(cfg) ==
    LET c == get_config(cfg)
        e == CreateEngine(c.db_config)
    IN  IF c.raised # "none" THEN [ret |-> None, printed |-> << c.raised >>]
        ELSE IF e.raised # "none" THEN [ret |-> None, printed |-> << e.raised >>]
        ELSE [ret |-> e.engine, printed |-> << >>]

(***************************************************************************)
(* Series.quantile([0.25, 0.75]): linear interpolation between the order   *)
(* statistics that bracket the rank p*(n-1); NaN on an empty series.       *)
(***************************************************************************)
RECURSIVE Insert(_, _)
Insert(x, s) ==
    IF s = << >> THEN << x >>
    ELSE IF x <= Head(s) THEN << x >> \o s
    ELSE << Head(s) >> \o Insert(x, Tail(s))

RECURSIVE SortCounts(_)
SortCountsNot(s) == s
SortCounts(s) == IF s = << >> THEN << >> ELSE Insert(Head(s), SortCounts(Tail(s)))

\* interpolation="higher": the order statistic at the ceiling of the rank
QuantileHigher(counts, k) ==
    LET n == Len(counts)
        s == SortCounts(counts)
        rank4 == k * (n - 1)
        hi == (rank4 + 3) \div 4
    IN  IF n = 0 THEN NaN ELSE FromInt(s[hi + 1])

\* the quantile at k/4, in eighths
Quantile(counts, k) ==
    LET n == Len(counts)
        s == SortCounts(counts)
        rank4 == k * (n - 1)             \* the rank p*(n-1), in quarters
        lo == rank4 \div 4
        frac4 == rank4 % 4
        a == s[lo + 1]
        b == s[IF lo + 2 <= n THEN lo + 2 ELSE n]
    IN  IF n = 0 THEN NaN
        ELSE Num(2 * (4 * a + (b - a) * frac4))

(***************************************************************************)
(* Series.between(left, right), inclusive="both": (x >= left) & (x <= right) *)
(***************************************************************************)
BetweenNeither(x, left, right) == FGt(x, left) /\ FLt(x, right)
BetweenLeft(x, left, right) == FGe(x, left) /\ FLt(x, right)
Between(x, left, right) == FGe(x, left) /\ FLe(x, right)

RECURSIVE Mask(_, _, _)
\* transaction_counts[~transaction_counts["count"].between(lb, ub)]
Mask(t, lb, ub) ==
    IF t = << >> THEN << >>
    ELSE (IF ~Between(FromInt(Head(t).count), lb, ub) THEN << Head(t) >> ELSE << >>)
         \o Mask(Tail(t), lb, ub)

RECURSIVE InsertRow(_, _)
InsertRow(r, s) ==
    IF s = << >> THEN << r >>
    ELSE IF r.orderdate <= Head(s).orderdate THEN << r >> \o s
    ELSE << Head(s) >> \o InsertRow(r, Tail(s))

RECURSIVE sort_values(_)
SortValuesNot(t) == t
\* DataFrame.sort_values(by=["orderdate"])
sort_values(t) == IF t = << >> THEN << >> ELSE InsertRow(Head(t), sort_values(Tail(t)))

(***************************************************************************)
(* DataFrame.to_csv(name, index=False): a header line, then a line a row.  *)
(***************************************************************************)
HeaderLine == [kind |-> "header", orderdate |-> 0, count |-> 0]
RowLine(r) == [kind |-> "row", orderdate |-> r.orderdate, count |-> r.count]
CsvLines(t) == << HeaderLine >> \o [k \in 1..Len(t) |-> RowLine(t[k])]
Absent == [exists |-> FALSE, lines |-> << >>]
File(lines) == [exists |-> TRUE, lines |-> lines]
\* writing lines at offset 0 of a file that holds old
Overlay(old, new) == new \o SubSeq(old, Len(new) + 1, Len(old))

(***************************************************************************)
(* The state machine.                                                      *)
(***************************************************************************)
DbStatuses == { "up", "unreachable", "rejects_credentials", "no_table" }
PriorFile == File(<< HeaderLine, RowLine(Row(1, 40)) >>)

\* every call of days_unusual_sale_counts has its own frame of locals
FrameShared(i) == 1
Frame(i) == i

FreshLocals(I) ==
    /\ exc = [i \in I |-> "none"]
    /\ transaction_counts = [i \in I |-> << >>]
    /\ q_1 = [i \in I |-> Unassigned]
    /\ q_3 = [i \in I |-> Unassigned]
    /\ iqr = [i \in I |-> Unassigned]
    /\ lower_bound = [i \in I |-> Unassigned]
    /\ upper_bound = [i \in I |-> Unassigned]
    /\ anomalies = [i \in I |-> << >>]

\* python anomalies.py
Init ==
    /\ config \in ConfigFiles
    /\ dbStatus \in DbStatuses
    /\ csv \in { Absent, PriorFile }
    /\ csv0 = csv
    /\ csvWrites = 0
    /\ stdout = << >>
    /\ mainpc = "start"
    /\ db_engine = None
    /\ exitStatus = "running"
    /\ connAttempts = 0
    /\ pc = [i \in {1} |-> "idle"]
    /\ FreshLocals({1})

\* two callers that have imported the module and call
\* days_unusual_sale_counts, each with an engine of its own
InitConc ==
    /\ config \in { c \in ConfigFiles : c.params = "valid" }
    /\ dbStatus \in DbStatuses
    /\ csv \in { Absent, PriorFile }
    /\ csv0 = csv
    /\ csvWrites = 0
    /\ stdout = << >>
    /\ mainpc = "imported"
    /\ db_engine = None
    /\ exitStatus = "running"
    /\ connAttempts = 0
    /\ pc = [i \in {1, 2} |-> "enter"]
    /\ FreshLocals({1, 2})

env == << config, dbStatus, csv0 >>
main == << stdout, mainpc, db_engine, exitStatus >>
locals == << transaction_counts, q_1, q_3, iqr, lower_bound, upper_bound, anomalies >>

\* db_engine = connect()
Connect ==
    /\ mainpc = "start"
    /\ LET r == connect(config)
       IN  /\ db_engine' = r.ret
           /\ stdout' = stdout \o r.printed
    /\ mainpc' = "if"
    /\ UNCHANGED << env, csv, csvWrites, exitStatus, connAttempts, pc, exc, locals >>

\* if db_engine: days_unusual_sale_counts(db_engine)
MainIf ==
    /\ mainpc = "if"
    /\ IF db_engine # None
       THEN /\ mainpc' = "call"
            /\ pc' = [pc EXCEPT ![1] = "enter"]
            /\ UNCHANGED exitStatus
       ELSE /\ mainpc' = "exit"
            /\ exitStatus' = "ok"
            /\ UNCHANGED pc
    /\ UNCHANGED << env, csv, csvWrites, stdout, db_engine, connAttempts, exc, locals >>

\* the call returns, or its exception leaves the program with a traceback
MainReturn ==
    /\ mainpc = "call"
    /\ pc[1] \in { "done", "raised" }
    /\ mainpc' = "exit"
    /\ exitStatus' = IF pc[1] = "done" THEN "ok" ELSE "uncaught"
    /\ UNCHANGED << env, csv, csvWrites, stdout, db_engine, connAttempts, pc, exc, locals >>

Raise(i, e) ==
    /\ exc' = [exc EXCEPT ![i] = e]
    /\ pc' = [pc EXCEPT ![i] = "raised"]

\* with engine.connect() as conn: the first connection to the server
EngineConnect(i) ==
    /\ pc[i] = "enter"
    /\ connAttempts' = connAttempts + 1
    /\ IF dbStatus \in { "up", "no_table" }
       THEN /\ pc' = [pc EXCEPT ![i] = "read"]
            /\ UNCHANGED exc
       ELSE Raise(i, "OperationalError")
    /\ UNCHANGED << env, csv, csvWrites, main, locals >>

\* transaction_counts = pd.read_sql(sql, conn)
ReadSql(i, T) ==
    /\ pc[i] = "read"
    /\ IF dbStatus = "no_table"
       THEN /\ Raise(i, "ProgrammingError")
            /\ UNCHANGED transaction_counts
       ELSE /\ \E n \in DOMAIN T : \E t \in T[n] :
                  transaction_counts' = [transaction_counts EXCEPT ![Frame(i)] = t]
            /\ pc' = [pc EXCEPT ![i] = "quantile"]
            /\ UNCHANGED exc
    /\ UNCHANGED << env, csv, csvWrites, main, connAttempts, q_1, q_3, iqr,
                    lower_bound, upper_bound, anomalies >>

\* quantiles = transaction_counts["count"].quantile([0.25, 0.75])
Quantiles(i) ==
    /\ pc[i] = "quantile"
    /\ q_1' = [q_1 EXCEPT ![Frame(i)] = Quantile(Column(transaction_counts[Frame(i)]), 1)]
    /\ q_3' = [q_3 EXCEPT ![Frame(i)] = Quantile(Column(transaction_counts[Frame(i)]), 3)]
    /\ pc' = [pc EXCEPT ![i] = "bounds"]
    /\ UNCHANGED << env, csv, csvWrites, main, connAttempts, exc, transaction_counts,
                    iqr, lower_bound, upper_bound, anomalies >>

\* iqr, lower_bound, upper_bound
Bounds(i) ==
    /\ pc[i] = "bounds"
    /\ LET d == FSub(q_3[Frame(i)], q_1[Frame(i)])
       IN  /\ iqr' = [iqr EXCEPT ![Frame(i)] = d]
           /\ lower_bound' = [lower_bound EXCEPT ![Frame(i)] = FSub(q_1[Frame(i)], FMul15(d))]
           /\ upper_bound' = [upper_bound EXCEPT ![Frame(i)] = FAdd(q_3[Frame(i)], FMul15(d))]
    /\ pc' = [pc EXCEPT ![i] = "filter"]
    /\ UNCHANGED << env, csv, csvWrites, main, connAttempts, exc, transaction_counts,
                    q_1, q_3, anomalies >>

\* anomalies = transaction_counts[~...between(...)].sort_values(by=["orderdate"])
Filter(i) ==
    /\ pc[i] = "filter"
    /\ anomalies' = [anomalies EXCEPT ![Frame(i)] =
            sort_values(Mask(transaction_counts[Frame(i)],
                             lower_bound[Frame(i)], upper_bound[Frame(i)]))]
    /\ pc' = [pc EXCEPT ![i] = "to_csv"]
    /\ UNCHANGED << env, csv, csvWrites, main, connAttempts, exc, transaction_counts,
                    q_1, q_3, iqr, lower_bound, upper_bound >>

\* anomalies.to_csv(...): open the file for writing, which truncates it
ToCsvOpen(i) ==
    /\ pc[i] = "to_csv"
    /\ \E ok \in BOOLEAN :
          IF ok
          THEN /\ csv' = File(<< >>)
               /\ csvWrites' = csvWrites + 1
               /\ pc' = [pc EXCEPT ![i] = "write"]
               /\ UNCHANGED exc
          ELSE /\ Raise(i, "OSError")
               /\ UNCHANGED << csv, csvWrites >>
    /\ UNCHANGED << env, main, connAttempts, locals >>

\* anomalies.to_csv(...): write the lines from the start of the file, close it
ToCsvWrite(i) ==
    /\ pc[i] = "write"
    /\ \E ok \in BOOLEAN :
          IF ok
          THEN /\ csv' = File(Overlay(csv.lines, CsvLines(anomalies[Frame(i)])))
               /\ pc' = [pc EXCEPT ![i] = "done"]
               /\ UNCHANGED exc
          ELSE /\ Raise(i, "OSError")
               /\ UNCHANGED csv
    /\ UNCHANGED << env, csvWrites, main, connAttempts, locals >>

\* the steps of one invocation of days_unusual_sale_counts
Step(i, T) ==
    \/ EngineConnect(i)
    \/ ReadSql(i, T)
    \/ Quantiles(i)
    \/ Bounds(i)
    \/ Filter(i)
    \/ ToCsvOpen(i)
    \/ ToCsvWrite(i)

Next ==
    \/ Connect
    \/ MainIf
    \/ MainReturn
    \/ \E i \in DOMAIN pc : Step(i, Tables)

NextA ==
    \/ Connect
    \/ MainIf
    \/ MainReturn
    \/ \E i \in DOMAIN pc : Step(i, ScenarioATables)

NextConc == \E i \in DOMAIN pc : Step(i, ConcTables)

Spec == Init /\ [][Next]_vars
SpecA == Init /\ [][NextA]_vars
SpecConc == InitConc /\ [][NextConc]_vars

\* lines 61-74 as one function of the fetched table
Detector(t) ==
    LET q1 == Quantile(Column(t), 1)
        q3 == Quantile(Column(t), 3)
        d == FSub(q3, q1)
    IN  sort_values(Mask(t, FSub(q1, FMul15(d)), FAdd(q3, FMul15(d))))

(***************************************************************************)
(* Vocabulary of the properties.                                           *)
(***************************************************************************)
RowsOf(t) == { t[k] : k \in 1..Len(t) }

\* the rows of the file dates_unusual_sales.csv, below its header line
OutputRows ==
    [k \in 1..(Len(csv.lines) - 1) |-> Row(csv.lines[k + 1].orderdate, csv.lines[k + 1].count)]

Computed(i) == pc[i] \in { "to_csv", "write", "done" }
Bounded(i) == pc[i] \in { "filter", "to_csv", "write", "done" }
Fetched(i) ==
    \/ pc[i] \in { "quantile", "bounds", "filter", "to_csv", "write", "done" }
    \/ pc[i] = "raised" /\ exc[i] = "OSError"
AllSame(t) == \A j, k \in 1..Len(t) : t[j].count = t[k].count

TypeOK ==
    /\ config \in ConfigFiles
    /\ dbStatus \in DbStatuses
    /\ csvWrites \in 0..2
    /\ connAttempts \in 0..2
    /\ db_engine \in { None, Engine }

(***************************************************************************)
(* C1.  For a non-empty table, a row is in the output iff its count is     *)
(* strictly below lower_bound = q1 - 1.5*iqr or strictly above             *)
(* upper_bound = q3 + 1.5*iqr; a count equal to a bound is not in it.      *)
(***************************************************************************)
C1_StrictlyOutside ==
    (pc[1] = "done" /\ transaction_counts[1] # << >>) =>
        LET lb == lower_bound[1]
            ub == upper_bound[1]
        IN  /\ ~lb.nan /\ ~ub.nan /\ ~q_1[1].nan /\ ~q_3[1].nan
            /\ 2 * lb.v = 2 * q_1[1].v - 3 * (q_3[1].v - q_1[1].v)
            /\ 2 * ub.v = 2 * q_3[1].v + 3 * (q_3[1].v - q_1[1].v)
            /\ RowsOf(OutputRows) \subseteq RowsOf(transaction_counts[1])
            /\ \A r \in RowsOf(transaction_counts[1]) :
                  (r \in RowsOf(OutputRows)) <=> (8 * r.count < lb.v \/ 8 * r.count > ub.v)

\* a run with 0 < iqr in which a count equals upper_bound and another lower_bound
C1_Witness ==
    /\ pc[1] = "done"
    /\ iqr[1].v > 0
    /\ \E r \in RowsOf(transaction_counts[1]) : 8 * r.count = upper_bound[1].v
    /\ \E r \in RowsOf(transaction_counts[1]) : 8 * r.count = lower_bound[1].v

(***************************************************************************)
(* C2.  Scenario A, counts [10, 12, 12, 13, 14, 15, 100] on Jan 1..7.      *)
(* As claimed: q1 = 12, q3 = 15, iqr = 3, bounds [7.5, 19.5], the output   *)
(* is exactly the row Jan 7, 100.                                          *)
(***************************************************************************)
C2_ScenarioA_AsClaimed ==
    pc[1] = "done" =>
        /\ q_1[1] = Num(8 * 12)
        /\ q_3[1] = Num(8 * 15)
        /\ iqr[1] = Num(8 * 3)
        /\ lower_bound[1] = Num(60)
        /\ upper_bound[1] = Num(156)
        /\ OutputRows = << Row(7, 100) >>

(***************************************************************************)
(* C2, amended.  Interpolation at rank p*(n-1) gives q1 = 12 (rank 1.5,    *)
(* between 12 and 12) and q3 = 14.5 (rank 4.5, between 14 and 15), so      *)
(* iqr = 2.5, the bounds are [8.25, 18.25], and the output is exactly the  *)
(* row Jan 7, 100.                                                         *)
(***************************************************************************)
C2_ScenarioA ==
    /\ Bounded(1) =>
        /\ q_1[1] = Num(8 * 12)
        /\ q_3[1] = Num(116)
        /\ iqr[1] = Num(20)
        /\ lower_bound[1] = Num(66)
        /\ upper_bound[1] = Num(146)
    /\ pc[1] = "done" => OutputRows = << Row(7, 100) >>

C2_Witness ==
    /\ pc[1] = "done"
    /\ RowsOf(transaction_counts[1]) = ScenarioARows
    /\ transaction_counts[1][1] = Row(7, 100)
    /\ csv = File(<< HeaderLine, RowLine(Row(7, 100)) >>)

(***************************************************************************)
(* C3.  When the query returns no row, the detector raises                 *)
(* EmptyInputError and dates_unusual_sales.csv is not written.             *)
(***************************************************************************)
C3_EmptyInputRaises ==
    (Fetched(1) /\ transaction_counts[1] = << >>) =>
        /\ csvWrites = 0
        /\ pc[1] \in { "done", "raised" } => exc[1] = "EmptyInputError"

(***************************************************************************)
(* C4.  When the server is unreachable or rejects the credentials, the     *)
(* failure is caught inside connect(), which reports it and returns None,  *)
(* and days_unusual_sale_counts is never entered; there is no retry.       *)
(***************************************************************************)
C4_CaughtAtConnect ==
    dbStatus \in { "unreachable", "rejects_credentials" } =>
        /\ pc[1] = "idle"
        /\ connAttempts <= 1
        /\ mainpc # "start" => (db_engine = None /\ stdout # << >>)

(***************************************************************************)
(* C5.  For a non-empty table, lower_bound <= q1 <= q3 <= upper_bound.     *)
(***************************************************************************)
C5_BoundOrdering ==
    (Bounded(1) /\ transaction_counts[1] # << >>) =>
        /\ FLe(lower_bound[1], q_1[1])
        /\ FLe(q_1[1], q_3[1])
        /\ FLe(q_3[1], upper_bound[1])

C5_Witness ==
    /\ Bounded(1)
    /\ FLt(lower_bound[1], q_1[1])
    /\ FLt(q_1[1], q_3[1])
    /\ FLt(q_3[1], upper_bound[1])

(***************************************************************************)
(* C6.  The output rows are in ascending order of date, and the output is  *)
(* the same for every order the query returns the same rows in.  The       *)
(* second part is stated as: the output is the one ascending sequence of   *)
(* the rows that ExpectedAnomalies picks, and ExpectedAnomalies is a       *)
(* function of the SET of fetched rows, in which no order is left.         *)
(***************************************************************************)
\* the j-th smallest count of the set of rows S (dates are distinct), j in 1..|S|
OrderStat(S, j) ==
    CHOOSE v \in { r.count : r \in S } :
        /\ Cardinality({ r \in S : r.count < v }) < j
        /\ j <= Cardinality({ r \in S : r.count <= v })

\* the quantile at k/4 of the counts of S, in eighths; S is not empty
SetQuantile(S, k) ==
    LET n == Cardinality(S)
        lo == (k * (n - 1)) \div 4
        frac4 == (k * (n - 1)) % 4
        a == OrderStat(S, lo + 1)
        b == OrderStat(S, IF lo + 2 <= n THEN lo + 2 ELSE n)
    IN  2 * (4 * a + (b - a) * frac4)

ExpectedAnomalies(S) ==
    IF S = {} THEN {}
    ELSE LET q1 == SetQuantile(S, 1)
             q3 == SetQuantile(S, 3)
         IN  { r \in S : \/ 16 * r.count < 2 * q1 - 3 * (q3 - q1)
                         \/ 16 * r.count > 2 * q3 + 3 * (q3 - q1) }

C6_SortedAndOrderFree ==
    pc[1] = "done" =>
        LET out == OutputRows
            A == ExpectedAnomalies(RowsOf(transaction_counts[1]))
        IN  /\ \A j, k \in 1..Len(out) : j < k => out[j].orderdate <= out[k].orderdate
            /\ RowsOf(out) = A
            /\ Len(out) = Cardinality(A)

\* two anomalies that were fetched in descending order of date
C6_Witness ==
    /\ pc[1] = "done"
    /\ Len(OutputRows) >= 2
    /\ \E j, k \in 1..Len(transaction_counts[1]) :
          /\ j < k
          /\ transaction_counts[1][j].orderdate > transaction_counts[1][k].orderdate
          /\ { transaction_counts[1][j], transaction_counts[1][k] } \subseteq RowsOf(OutputRows)

(***************************************************************************)
(* C7.  When all counts are identical (a single row included), q1 = q3 is  *)
(* that value, iqr = 0, both bounds are that value, and no row is output.  *)
(***************************************************************************)
C7_AllIdentical ==
    (transaction_counts[1] # << >> /\ AllSame(transaction_counts[1])) =>
        LET v == FromInt(transaction_counts[1][1].count)
        IN  /\ Bounded(1) =>
                /\ q_1[1] = v /\ q_3[1] = v
                /\ iqr[1] = Num(0)
                /\ lower_bound[1] = v /\ upper_bound[1] = v
            /\ Computed(1) => anomalies[1] = << >>
            /\ pc[1] = "done" => csv = File(<< HeaderLine >>)

C7_Witness ==
    /\ pc[1] = "done"
    /\ Len(transaction_counts[1]) >= 2
    /\ AllSame(transaction_counts[1])
    /\ csv0 = PriorFile

\* the single-row case of C7
C7_WitnessSingle ==
    /\ pc[1] = "done"
    /\ Len(transaction_counts[1]) = 1

(***************************************************************************)
(* C8.  In every run that ends in a failure (configuration error,          *)
(* connection or query failure, empty input), dates_unusual_sales.csv is   *)
(* left exactly as it was before the run.                                  *)
(***************************************************************************)
ConfigurationError == ~config.has_section \/ config.params = "invalid"
ConnectionOrQueryFailure == dbStatus # "up"
EmptyInput == Fetched(1) /\ transaction_counts[1] = << >>

C8_FailureLeavesFile ==
    (ConfigurationError \/ ConnectionOrQueryFailure \/ EmptyInput) =>
        (csv = csv0 /\ csvWrites = 0)

\* the part of C8 that the code keeps: the failures that are failures in the code
C8_RaisedBeforeWrite ==
    (ConfigurationError \/ ConnectionOrQueryFailure) => (csv = csv0 /\ csvWrites = 0)

(***************************************************************************)
(* C9.  Without a postgresql section, get_config raises, the error is      *)
(* reported, and the program ends without connecting to the database,      *)
(* without running the analysis and without writing the file.              *)
(***************************************************************************)
C9_NoSection ==
    ~config.has_section =>
        /\ mainpc # "start" =>
              /\ stdout = << "ValueError: Section postgresql not found in database.ini" >>
              /\ db_engine = None
        /\ mainpc \in { "start", "if", "exit" }
        /\ mainpc = "exit" => exitStatus = "ok"
        /\ pc[1] = "idle"
        /\ connAttempts = 0
        /\ csvWrites = 0 /\ csv = csv0

C9_Witness ==
    /\ ~config.has_section
    /\ mainpc = "exit"
    /\ stdout # << >>
    /\ csv = PriorFile

(***************************************************************************)
(* C10.  As claimed: of two concurrent invocations, each produces the      *)
(* result it produces alone, and no invocation's result is overwritten or  *)
(* altered by the other.  The result of an invocation is the file it       *)
(* writes.                                                                 *)
(***************************************************************************)
C10_NoInterference ==
    \A i \in DOMAIN pc :
        pc[i] = "done" => csv = File(CsvLines(Detector(transaction_counts[i])))

(***************************************************************************)
(* C10, amended.  What an invocation computes (quartiles, bounds, the      *)
(* sorted anomalies) is held in locals of the call and is, under every     *)
(* interleaving, what it computes alone from its own table.  The file it   *)
(* writes them to is shared (see C10_NoInterference).                      *)
(***************************************************************************)
C10_LocalsIsolated ==
    \A i \in DOMAIN pc :
        /\ Bounded(i) =>
              /\ q_1[i] = Quantile(Column(transaction_counts[i]), 1)
              /\ q_3[i] = Quantile(Column(transaction_counts[i]), 3)
        /\ Computed(i) => anomalies[i] = Detector(transaction_counts[i])
        /\ ~Fetched(i) => (transaction_counts[i] = << >> /\ anomalies[i] = << >>)

\* both invocations are done, and the file no longer holds what 1 wrote
C10_Witness ==
    /\ pc[1] = "done" /\ pc[2] = "done"
    /\ anomalies[1] # << >>
    /\ anomalies[1] # anomalies[2]
    /\ csv = File(CsvLines(anomalies[2]))

====
